---- MODULE Spec2Model ----
(***************************************************************************)
(* A model of the EDI 835 parser: the hierarchical view                    *)
(* (TransactionSet.to_json), the document build (TransactionSet.build and  *)
(* build_attribute), the payer/payee accessors, serialize_service, the     *)
(* tokenization / preprocessing of the raw text, the segment classes and   *)
(* code tables, the batch loops of parse and of the test runner, and       *)
(* to_dataframe.                                                           *)
(*                                                                         *)
(* A segment is a record [id, e1, n]: its identifier (field 0), its first  *)
(* element (field 1) and its number of fields.  Every datum a converter    *)
(* produces carries `pos`, the index of the source segment it came from,   *)
(* so that the placement and the order of the output can be stated against *)
(* the source.                                                             *)
(***************************************************************************)
EXTENDS Integers, Sequences, FiniteSets, TLC

VARIABLES
    \* ---- TransactionSet.to_json
    segments,            \* the segments read so far (stripped, non-empty)
    json_data,           \* the tree under "interchange"
    current_transaction, \* index into transactions, 0 for None
    current_n1_loop,     \* <<t, k>> path of the loop dict, <<>> for None
    current_clp_loop,    \* <<t, c>>, <<>> for None
    current_svc_loop,    \* <<t, c, s>>, <<>> for None
    \* ---- TransactionSet.build
    file,                \* the segments of the file, as build splits it
    cursor,              \* number of segments the iterator has yielded, -1 for None
    segment,             \* the pushed-back segment (its index), 0 for None
    interchange, financial_information, trace, claims, organizations,
    pc,                  \* "idle", "loop", "returned", "raised", "json"
    payer, payee,        \* results of the accessors, Unset before the call
    \* ---- tokenization of the raw text
    content,             \* the characters of the file
    op,                  \* which tokenization ran
    records,             \* its result
    rerecords,           \* the result of tokenizing the re-joined records
    \* ---- TransactionSet.serialize_service
    service, claim, datum,
    \* ---- the segment classes, the converters and the code tables
    elements,            \* a segment split into its fields, field 0 its tag
    built,               \* what the constructor or the converter made of it
    contact_function_codes,   \* the module-level table of contact_function_code.py
    communication_qualifiers, \* the module-level table of communication_qualifier.py
    lookup,              \* a call of an element's parser and its answer
    \* ---- a batch: parse on a directory, the test runner's loop
    files,               \* the files found, each the segments it holds
    debug,               \* parse's debug argument
    caller,              \* "parse" or "runner", "idle" outside a batch
    index,               \* the files the loop has taken
    attempted,           \* the files a build was started on, in order
    transaction_sets,    \* parse: the files whose transaction set was appended
    warnings,            \* parse: the files warned about
    results,             \* runner: the test_result of each file
    successful_tests, failed_tests,
    batch_pc,            \* "idle", "loop", "returned", "raised"
    \* ---- TransactionSet.to_dataframe
    data                 \* the frame to_dataframe returns, or its error

jsonVars == <<segments, json_data, current_transaction, current_n1_loop,
              current_clp_loop, current_svc_loop>>
buildVars == <<file, cursor, segment, interchange, financial_information, trace,
               claims, organizations, pc, payer, payee>>
textVars == <<content, op, records, rerecords>>
svcVars == <<service, claim, datum>>
segVars == <<elements, built, contact_function_codes, communication_qualifiers, lookup>>
batchVars == <<files, debug, caller, index, attempted, transaction_sets, warnings,
               results, successful_tests, failed_tests, batch_pc>>
frameVars == <<data>>
restVars == <<segVars, batchVars, frameVars>>
vars == <<jsonVars, buildVars, textVars, svcVars, restVars>>

\* ------------------------------------------------------------------ bounds
MaxSegments == 5
MaxFile == 4
MaxDoc == 4
MaxText == 4

\* ------------------------------------------------------------------ values
Null == [id |-> "None", e1 |-> "", pos |-> 0]

Seg(id) == [id |-> id, e1 |-> "", n |-> 1]

RECURSIVE SeqsUpTo(_, _)
SeqsUpTo(S, n) ==
    IF n = 0 THEN {<<>>}
    ELSE LET shorter == SeqsUpTo(S, n - 1)
         IN shorter \cup {Append(s, x) : s \in {t \in shorter : Len(t) = n - 1}, x \in S}

Range(s) == {s[i] : i \in DOMAIN s}

\* ------------------------------------------------------------------ to_json
\* every _convert_*_segment: parts[1] if len(parts) > 1 else ""
Convert(seg, pos) ==
    [id |-> seg.id, e1 |-> IF seg.n > 1 THEN seg.e1 ELSE "", pos |-> pos]

EmptyJson ==
    [ISA |-> Null, GS |-> Null, transactions |-> <<>>, GE |-> Null, IEA |-> Null]

NewTransaction(d) ==
    [ST |-> d, BPR |-> Null, TRN |-> Null, DTM |-> <<>>, N1_loop |-> <<>>,
     CLP_loop |-> <<>>, PLB |-> <<>>, SE |-> Null]

NewN1Loop(d) == [N1 |-> d, N3 |-> Null, N4 |-> Null, PER |-> Null]

NewClpLoop(d) ==
    [CLP |-> d, CAS |-> <<>>, NM1 |-> <<>>, DTM |-> <<>>, AMT |-> <<>>,
     REF |-> <<>>, SVC_loop |-> <<>>]

\* the dict {"SVC": ...}: `keys` are the keys it has; a list whose key is
\* absent is not there to be read
NewSvcLoop(d) ==
    [SVC |-> d, keys |-> {"SVC"}, DTM |-> <<>>, CAS |-> <<>>, REF |-> <<>>, AMT |-> <<>>]

JsonInit ==
    [json_data |-> EmptyJson, current_transaction |-> 0, current_n1_loop |-> <<>>,
     current_clp_loop |-> <<>>, current_svc_loop |-> <<>>]

\* if key not in current_svc_loop: current_svc_loop[key] = []; then append
SvcLoopAppend(st, key, d) ==
    LET p == st.current_svc_loop
    IN [st EXCEPT !.json_data.transactions[p[1]].CLP_loop[p[2]].SVC_loop[p[3]] =
            [@ EXCEPT !.keys = @ \cup {key}, ![key] = Append(@, d)]]

ClpLoopAppend(st, key, d) ==
    LET p == st.current_clp_loop
    IN [st EXCEPT !.json_data.transactions[p[1]].CLP_loop[p[2]][key] = Append(@, d)]

TransactionAppend(st, key, d) ==
    [st EXCEPT !.json_data.transactions[st.current_transaction][key] = Append(@, d)]

OnST(st, d) ==
    [st EXCEPT !.json_data.transactions = Append(@, NewTransaction(d)),
               !.current_transaction = Len(st.json_data.transactions) + 1]

OnDTM(st, d) ==
    IF st.current_svc_loop /= <<>> THEN SvcLoopAppend(st, "DTM", d)
    ELSE TransactionAppend(st, "DTM", d)

OnN1(st, d) ==
    LET t == st.current_transaction
    IN [st EXCEPT !.json_data.transactions[t].N1_loop = Append(@, NewN1Loop(d)),
                  !.current_n1_loop = <<t, Len(st.json_data.transactions[t].N1_loop) + 1>>]

OnN1Part(st, key, d) ==
    LET p == st.current_n1_loop
    IN [st EXCEPT !.json_data.transactions[p[1]].N1_loop[p[2]][key] = d]

OnREF(st, d) ==
    IF st.current_svc_loop /= <<>> THEN SvcLoopAppend(st, "REF", d)
    ELSE IF st.current_clp_loop /= <<>> THEN ClpLoopAppend(st, "REF", d)
    ELSE st

\* a second claim equal to one the transaction already holds is not appended
OnCLP_Dedup(st, d) ==
    LET t == st.current_transaction
        loops == st.json_data.transactions[t].CLP_loop
    IN IF \E c \in DOMAIN loops : loops[c].CLP.id = d.id /\ loops[c].CLP.e1 = d.e1
       THEN [st EXCEPT !.current_svc_loop = <<>>]
       ELSE [st EXCEPT !.json_data.transactions[t].CLP_loop = Append(@, NewClpLoop(d)),
                       !.current_clp_loop = <<t, Len(loops) + 1>>,
                       !.current_svc_loop = <<>>]

OnCLP(st, d) ==
    LET t == st.current_transaction
    IN [st EXCEPT !.json_data.transactions[t].CLP_loop = Append(@, NewClpLoop(d)),
                  !.current_clp_loop = <<t, Len(st.json_data.transactions[t].CLP_loop) + 1>>,
                  !.current_svc_loop = <<>>]

OnCAS_ClaimOnly(st, d) == ClpLoopAppend(st, "CAS", d)

OnCAS(st, d) ==
    IF st.current_svc_loop /= <<>> THEN SvcLoopAppend(st, "CAS", d)
    ELSE ClpLoopAppend(st, "CAS", d)

OnNM1(st, d) == ClpLoopAppend(st, "NM1", d)

OnAMT(st, d) ==
    IF st.current_svc_loop /= <<>> THEN SvcLoopAppend(st, "AMT", d)
    ELSE ClpLoopAppend(st, "AMT", d)

OnSVC(st, d) ==
    LET p == st.current_clp_loop
        n == Len(st.json_data.transactions[p[1]].CLP_loop[p[2]].SVC_loop)
    IN [st EXCEPT !.json_data.transactions[p[1]].CLP_loop[p[2]].SVC_loop =
                      Append(@, NewSvcLoop(d)),
                  !.current_svc_loop = <<p[1], p[2], n + 1>>]

OnPLB(st, d) == TransactionAppend(st, "PLB", d)

\* the assigned number starts a new claim grouping: the open claim is closed
OnLX_ClosesClaim(st, d) ==
    [st EXCEPT !.current_clp_loop = <<>>, !.current_svc_loop = <<>>]

\* pass
OnLX(st, d) == st

OnSE(st, d) ==
    [st EXCEPT !.json_data.transactions[st.current_transaction].SE = d,
               !.current_transaction = 0,
               !.current_n1_loop = <<>>,
               !.current_clp_loop = <<>>,
               !.current_svc_loop = <<>>]

\* the body of `for segment in segments:`, the if/elif chain in its order
JsonStep(st, seg, pos) ==
    LET identifier == seg.id
        d == Convert(seg, pos)
        txn == st.current_transaction /= 0
        n1 == st.current_n1_loop /= <<>>
        clp == st.current_clp_loop /= <<>>
    IN  IF identifier = "ISA" THEN [st EXCEPT !.json_data.ISA = d]
        ELSE IF identifier = "GS" THEN [st EXCEPT !.json_data.GS = d]
        ELSE IF identifier = "ST" THEN OnST(st, d)
        ELSE IF identifier = "BPR" /\ txn
             THEN [st EXCEPT !.json_data.transactions[st.current_transaction].BPR = d]
        ELSE IF identifier = "TRN" /\ txn
             THEN [st EXCEPT !.json_data.transactions[st.current_transaction].TRN = d]
        ELSE IF identifier = "DTM" /\ txn THEN OnDTM(st, d)
        ELSE IF identifier = "N1" /\ txn THEN OnN1(st, d)
        ELSE IF identifier = "N3" /\ n1 THEN OnN1Part(st, "N3", d)
        ELSE IF identifier = "N4" /\ n1 THEN OnN1Part(st, "N4", d)
        ELSE IF identifier = "PER" /\ n1 THEN OnN1Part(st, "PER", d)
        ELSE IF identifier = "REF" /\ txn THEN OnREF(st, d)
        ELSE IF identifier = "LX" /\ txn THEN OnLX(st, d)
        ELSE IF identifier = "CLP" /\ txn THEN OnCLP(st, d)
        ELSE IF identifier = "CAS" /\ clp THEN OnCAS(st, d)
        ELSE IF identifier = "NM1" /\ clp THEN OnNM1(st, d)
        ELSE IF identifier = "AMT" /\ clp THEN OnAMT(st, d)
        ELSE IF identifier = "SVC" /\ clp THEN OnSVC(st, d)
        ELSE IF identifier = "PLB" /\ txn THEN OnPLB(st, d)
        ELSE IF identifier = "SE" /\ txn THEN OnSE(st, d)
        ELSE IF identifier = "GE" THEN [st EXCEPT !.json_data.GE = d]
        ELSE IF identifier = "IEA" THEN [st EXCEPT !.json_data.IEA = d]
        ELSE st

JsonState ==
    [json_data |-> json_data, current_transaction |-> current_transaction,
     current_n1_loop |-> current_n1_loop, current_clp_loop |-> current_clp_loop,
     current_svc_loop |-> current_svc_loop]

SetJsonState(st) ==
    /\ json_data' = st.json_data
    /\ current_transaction' = st.current_transaction
    /\ current_n1_loop' = st.current_n1_loop
    /\ current_clp_loop' = st.current_clp_loop
    /\ current_svc_loop' = st.current_svc_loop

\* the segments the hierarchical view is fed with
JsonAlphabet ==
    {Seg(id) : id \in {"ST", "SE", "CLP", "SVC", "PLB", "CAS", "AMT", "REF", "DTM"}}

\* ------------------------------------------------------------------ idle values
Unset == [kind |-> "unset"]

JsonIdle ==
    /\ segments = <<>>
    /\ json_data = EmptyJson
    /\ current_transaction = 0
    /\ current_n1_loop = <<>>
    /\ current_clp_loop = <<>>
    /\ current_svc_loop = <<>>

BuildIdle ==
    /\ file = <<>>
    /\ cursor = 0
    /\ segment = 0
    /\ interchange = Null
    /\ financial_information = Null
    /\ trace = Null
    /\ claims = <<>>
    /\ organizations = <<>>
    /\ pc = "idle"
    /\ payer = Unset
    /\ payee = Unset

NoOp == [fn |-> "idle", preprocess |-> FALSE, terminator |-> ""]

TextIdle ==
    /\ content = <<>>
    /\ op = NoOp
    /\ records = <<>>
    /\ rerecords = <<>>

SvcIdle ==
    /\ service = Unset
    /\ claim = Unset
    /\ datum = Unset

\* the tables as their modules define them
ContactFunctionCodes ==
    ("BL" :> "billing contact") @@ ("CX" :> "correspondence contact")
    @@ ("IC" :> "information contact") @@ ("TE" :> "technical contact")

CommunicationQualifiers ==
    ("TE" :> "telephone") @@ ("FX" :> "facsimile")
    @@ ("UR" :> "uniform resource locator (URL)") @@ ("EM" :> "electronic mail")
    @@ ("EX" :> "telephone extension")

SegIdle ==
    /\ elements = <<>>
    /\ built = Unset
    /\ contact_function_codes = ContactFunctionCodes
    /\ communication_qualifiers = CommunicationQualifiers
    /\ lookup = Unset

BatchIdle ==
    /\ files = <<>>
    /\ debug = FALSE
    /\ caller = "idle"
    /\ index = 0
    /\ attempted = <<>>
    /\ transaction_sets = <<>>
    /\ warnings = <<>>
    /\ results = <<>>
    /\ successful_tests = 0
    /\ failed_tests = 0
    /\ batch_pc = "idle"

FrameIdle == data = Unset

RestIdle == SegIdle /\ BatchIdle /\ FrameIdle

\* ------------------------------------------------------------------ the hierarchical view, segment by segment
InitJson == JsonIdle /\ BuildIdle /\ TextIdle /\ SvcIdle /\ RestIdle

\* one pass of `for segment in segments:` over the next segment of the file
ReadSegment ==
    /\ Len(segments) < MaxSegments
    /\ \E seg \in JsonAlphabet :
          /\ segments' = Append(segments, seg)
          /\ SetJsonState(JsonStep(JsonState, seg, Len(segments) + 1))
    /\ UNCHANGED <<buildVars, textVars, svcVars, restVars>>

NextJson == ReadSegment

SpecJson == InitJson /\ [][NextJson]_vars

\* the segments of the organizations and of the claim groupings
LoopAlphabet ==
    {Seg(id) : id \in {"ST", "SE", "N1", "N3", "PER", "LX", "CLP", "SVC", "CAS"}}

\* the same pass over a segment of the organizations and claim groupings
ReadLoopSegment ==
    /\ Len(segments) < MaxSegments
    /\ \E seg \in LoopAlphabet :
          /\ segments' = Append(segments, seg)
          /\ SetJsonState(JsonStep(JsonState, seg, Len(segments) + 1))
    /\ UNCHANGED <<buildVars, textVars, svcVars, restVars>>

NextLoops == ReadLoopSegment

SpecLoops == InitJson /\ [][NextLoops]_vars

\* ------------------------------------------------------------------ TransactionSet.build
\* find_identifier: the leading tag of the segment
FindIdentifier(seg) == seg.id

\* the tags a loop attaches to itself; any other tag ends the loop and is
\* handed back to the caller
OrganizationOwned == {"N3", "N4", "PER"}
ClaimOwned == {"CAS", "NM1", "DTM", "AMT", "REF"}
ServiceOwned == {"CAS", "REF", "AMT", "DTM", "LQ"}

\* the first index from k on whose segment the loop does not own, Len(f) + 1
\* when the stream ends first
RECURSIVE ScanOwned(_, _, _)
ScanOwned(f, k, owned) ==
    IF k > Len(f) \/ FindIdentifier(f[k]) \notin owned THEN k
    ELSE ScanOwned(f, k + 1, owned)

Attached(f, i, j) == [k \in 1..(j - i - 1) |-> Convert(f[i + k], i + k)]

\* a loop builder answers (loop, segments, segment): `next` is the index of
\* the segment that ended the loop, handed back unconsumed; at the end of the
\* stream it answers (loop, None, None), `eos`
OrganizationBuild(f, i) ==
    LET j == ScanOwned(f, i + 1, OrganizationOwned)
    IN [loop |-> [organization |-> Convert(f[i], i), attached |-> Attached(f, i, j)],
        eos |-> j > Len(f), next |-> j]

ServiceBuild(f, i) ==
    LET j == ScanOwned(f, i + 1, ServiceOwned)
    IN [loop |-> [service |-> Convert(f[i], i), attached |-> Attached(f, i, j)],
        eos |-> j > Len(f), next |-> j]

RECURSIVE ClaimBody(_, _, _)
ClaimBody(f, k, acc) ==
    IF k > Len(f) THEN [loop |-> acc, eos |-> TRUE, next |-> k]
    ELSE IF FindIdentifier(f[k]) = "SVC"
         THEN LET r == ServiceBuild(f, k)
              IN ClaimBody(f, r.next, [acc EXCEPT !.services = Append(@, r.loop)])
    ELSE IF FindIdentifier(f[k]) \in ClaimOwned
         THEN ClaimBody(f, k + 1, [acc EXCEPT !.attached = Append(@, Convert(f[k], k))])
    ELSE [loop |-> acc, eos |-> FALSE, next |-> k]

ClaimBuild(f, i) ==
    ClaimBody(f, i + 1, [claim |-> Convert(f[i], i), attached |-> <<>>, services |-> <<>>])

\* Trace.__init__ reads segment[1] and segment[2] unguarded
TraceRaises(seg) == seg.n < 3

Response(key, value, seg, segs) ==
    [raised |-> FALSE, key |-> key, value |-> value, segment |-> seg, segments |-> segs]

\* the record that ended the loop is not handed back
LoopResponse_NoPushback(key, r) ==
    IF r.eos THEN Response(key, r.loop, 0, -1) ELSE Response(key, r.loop, 0, r.next)

LoopResponse(key, r) ==
    IF r.eos THEN Response(key, r.loop, 0, -1) ELSE Response(key, r.loop, r.next, r.next)

\* build_attribute(segment, segments): seg is the pushed-back segment (0 for
\* None), cur the number of segments the iterator has yielded
BuildAttribute(f, seg, cur) ==
    IF seg = 0 /\ cur >= Len(f) THEN Response("None", Null, 0, -1)
    ELSE LET i == IF seg = 0 THEN cur + 1 ELSE seg
             after == IF seg = 0 THEN cur + 1 ELSE cur
             identifier == FindIdentifier(f[i])
         IN IF identifier = "ISA" THEN Response("interchange", Convert(f[i], i), 0, after)
            ELSE IF identifier = "BPR"
                 THEN Response("financial information", Convert(f[i], i), 0, after)
            ELSE IF identifier = "TRN"
                 THEN IF TraceRaises(f[i])
                      THEN [Response("None", Null, 0, after) EXCEPT !.raised = TRUE]
                      ELSE Response("trace", Convert(f[i], i), 0, after)
            ELSE IF identifier = "N1" THEN LoopResponse("organization", OrganizationBuild(f, i))
            ELSE IF identifier = "CLP" THEN LoopResponse("claim", ClaimBuild(f, i))
            ELSE Response("None", Null, 0, after)

\* what a file holds: file.split('~') is never empty, and its segments may be
\* empty ('' after strip, as after the last '~' of a file)
BuildAlphabet ==
    {Seg(id) : id \in {"", "ISA", "BPR", "CLP", "SVC", "CAS"}}
    \cup {[id |-> "TRN", e1 |-> "1", n |-> k] : k \in {1, 4}}
    \cup {[id |-> "N1", e1 |-> c, n |-> 3] : c \in {"PR", "PE"}}

DocAlphabet ==
    {Seg(id) : id \in {"", "ISA", "ST", "CLP", "SVC", "CAS"}}
    \cup {[id |-> "N1", e1 |-> "PR", n |-> 3]}

BuildStart(alphabet, n) ==
    /\ file \in SeqsUpTo(alphabet, n) \ {<<>>}
    /\ cursor = 0
    /\ segment = 0
    /\ interchange = Null
    /\ financial_information = Null
    /\ trace = Null
    /\ claims = <<>>
    /\ organizations = <<>>
    /\ pc = "loop"
    /\ payer = Unset
    /\ payee = Unset

InitBuild == JsonIdle /\ TextIdle /\ SvcIdle /\ RestIdle /\ BuildStart(BuildAlphabet, MaxFile)

InitDoc == JsonIdle /\ TextIdle /\ SvcIdle /\ RestIdle /\ BuildStart(DocAlphabet, MaxDoc)

\* one pass of `while True:` in build; the return of the document when the
\* response carries no iterator
BuildLoop ==
    /\ pc = "loop"
    /\ LET response == BuildAttribute(file, segment, cursor)
       IN IF response.raised
          THEN /\ pc' = "raised"
               /\ UNCHANGED <<cursor, segment, interchange, financial_information,
                              trace, claims, organizations>>
          ELSE /\ segment' = response.segment
               /\ cursor' = response.segments
               /\ IF response.segments = -1
                  THEN /\ pc' = "returned"
                       /\ UNCHANGED <<interchange, financial_information, trace,
                                      claims, organizations>>
                  ELSE /\ pc' = "loop"
                       /\ interchange' = IF response.key = "interchange"
                                         THEN response.value ELSE interchange
                       /\ financial_information' =
                              IF response.key = "financial information"
                              THEN response.value ELSE financial_information
                       /\ trace' = IF response.key = "trace" THEN response.value ELSE trace
                       /\ organizations' = IF response.key = "organization"
                                           THEN Append(organizations, response.value)
                                           ELSE organizations
                       /\ claims' = IF response.key = "claim"
                                    THEN Append(claims, response.value) ELSE claims
    /\ UNCHANGED <<file, payer, payee, jsonVars, textVars, svcVars, restVars>>

\* ------------------------------------------------------------------ payer / payee
\* the organization's type, resolved from its entity identifier code
OrganizationType(org) ==
    IF org.organization.e1 = "PR" THEN "payer"
    ELSE IF org.organization.e1 = "PE" THEN "payee"
    ELSE org.organization.e1

OfType(orgs, type) == SelectSeq(orgs, LAMBDA o : OrganizationType(o) = type)

Accessor_First(orgs, type) ==
    LET found == OfType(orgs, type)
    IN IF Len(found) >= 1 THEN [kind |-> "value", value |-> found[1]]
       ELSE [kind |-> "AssertionError"]

\* assert len(...) == 1; return ...[0]
Accessor(orgs, type) ==
    LET found == OfType(orgs, type)
    IN IF Len(found) = 1 THEN [kind |-> "value", value |-> found[1]]
       ELSE [kind |-> "AssertionError"]

Payer ==
    /\ pc = "returned"
    /\ payer = Unset
    /\ payer' = Accessor(organizations, "payer")
    /\ UNCHANGED <<file, cursor, segment, interchange, financial_information, trace,
                   claims, organizations, pc, payee, jsonVars, textVars, svcVars,
                   restVars>>

Payee ==
    /\ pc = "returned"
    /\ payee = Unset
    /\ payee' = Accessor(organizations, "payee")
    /\ UNCHANGED <<file, cursor, segment, interchange, financial_information, trace,
                   claims, organizations, pc, payer, jsonVars, textVars, svcVars,
                   restVars>>

\* ------------------------------------------------------------------ to_json of the built document
\* segments = [segment.strip() for segment in segments if segment.strip()]
NonEmpty(f) == SelectSeq(f, LAMBDA s : s.id /= "")

RECURSIVE JsonFold(_, _, _)
JsonFold(st, segs, k) ==
    IF k > Len(segs) THEN st ELSE JsonFold(JsonStep(st, segs[k], k), segs, k + 1)

\* transaction_set.to_json(): the whole pass over the file the document was
\* built from
ToJson ==
    /\ pc = "returned"
    /\ pc' = "json"
    /\ segments' = NonEmpty(file)
    /\ SetJsonState(JsonFold(JsonInit, NonEmpty(file), 1))
    /\ UNCHANGED <<file, cursor, segment, interchange, financial_information, trace,
                   claims, organizations, payer, payee, textVars, svcVars, restVars>>

\* the build of a document and the reading of its payer and payee
NextBuild == BuildLoop \/ Payer \/ Payee

SpecBuild == InitBuild /\ [][NextBuild]_vars

\* the build of a document and its hierarchical view
NextDoc == BuildLoop \/ ToJson

SpecDoc == InitDoc /\ [][NextDoc]_vars

\* ------------------------------------------------------------------ reading the tree
Transactions == json_data.transactions

ClpPaths ==
    UNION {{<<t, c>> : c \in DOMAIN Transactions[t].CLP_loop} : t \in DOMAIN Transactions}

SvcPaths ==
    UNION {{<<q[1], q[2], s>> : s \in DOMAIN Transactions[q[1]].CLP_loop[q[2]].SVC_loop} :
           q \in ClpPaths}

ClpAt(q) == Transactions[q[1]].CLP_loop[q[2]]
SvcAt(p) == Transactions[p[1]].CLP_loop[p[2]].SVC_loop[p[3]]

PosOf(list) == {list[i].pos : i \in DOMAIN list}

Routed == {"REF", "CAS", "AMT", "DTM"}

\* no segment with one of the tags lies strictly between i and j
NoneBetween(i, j, tags) == \A k \in (i + 1)..(j - 1) : segments[k].id \notin tags

\* ------------------------------------------------------------------ C1
\* C1 as stated: for every SVC loop of the output, a REF, CAS, AMT or DTM
\* record after that loop's SVC record and before the next SVC or CLP record
\* is in that SVC loop's own list and not in the containing CLP loop's list.
C1_AsStated ==
    \A p \in SvcPaths : \A j \in DOMAIN segments :
        LET i == SvcAt(p).SVC.pos
            tag == segments[j].id
        IN (j > i /\ tag \in Routed /\ NoneBetween(i, j, {"SVC", "CLP"}))
           => /\ j \in PosOf(SvcAt(p)[tag])
              /\ j \notin PosOf(ClpAt(<<p[1], p[2]>>)[tag])

\* C1 amended: for every SVC loop of the output, a REF, CAS, AMT or DTM record
\* after that loop's SVC record and before the next SVC, CLP or SE record is
\* in that SVC loop's own list and not in the containing CLP loop's list.
C1_ServiceRouting ==
    \A p \in SvcPaths : \A j \in DOMAIN segments :
        LET i == SvcAt(p).SVC.pos
            tag == segments[j].id
        IN (j > i /\ tag \in Routed /\ NoneBetween(i, j, {"SVC", "CLP", "SE"}))
           => /\ j \in PosOf(SvcAt(p)[tag])
              /\ j \notin PosOf(ClpAt(<<p[1], p[2]>>)[tag])

\* a service that received an adjustment, its claim's own list left empty
C1_Witness ==
    \E p \in SvcPaths :
        /\ SvcAt(p).CAS /= <<>>
        /\ ClpAt(<<p[1], p[2]>>).CAS = <<>>

\* ------------------------------------------------------------------ C2
\* C2: a CAS, DTM, AMT or REF record that occurs while a claim loop is open
\* and no service loop is open (after the CLP record, before the claim's first
\* SVC record and before any record that ends the claim) is in that claim's
\* list of its tag and not in the transaction's list; the transaction's DTM
\* list holds only date records seen while no claim was open.
C2_ClaimRouting ==
    \A q \in ClpPaths : \A j \in DOMAIN segments :
        LET i == ClpAt(q).CLP.pos
            tag == segments[j].id
        IN (j > i /\ tag \in Routed
                  /\ NoneBetween(i, j, {"SVC", "CLP", "PLB", "SE", "ST"}))
           => /\ j \in PosOf(ClpAt(q)[tag])
              /\ j \notin PosOf(Transactions[q[1]].DTM)

\* ------------------------------------------------------------------ C3
\* C3: the length of every CLP loop's SVC_loop list is the number of SVC
\* records strictly between the claim's CLP record and the next CLP, PLB or
\* SE record.
C3_ServiceCount ==
    \A q \in ClpPaths :
        LET i == ClpAt(q).CLP.pos
        IN Len(ClpAt(q).SVC_loop) =
               Cardinality({k \in DOMAIN segments :
                               /\ k > i
                               /\ segments[k].id = "SVC"
                               /\ NoneBetween(i, k, {"CLP", "PLB", "SE"})})

\* ------------------------------------------------------------------ C4
Built == pc \in {"returned", "json"}

HasSegment(id) == \E i \in DOMAIN file : file[i].id = id

\* C4: build returns a document only if the stream held an ISA and a BPR
\* record; a returned document has its interchange and its
\* financial_information.
C4_RequiredScalars ==
    Built => /\ HasSegment("ISA") /\ HasSegment("BPR")
             /\ interchange /= Null /\ financial_information /= Null

\* ------------------------------------------------------------------ C5
\* a record no open context can accept: a content record before the ISA
\* record, or an SVC record with no CLP record before it
Unacceptable(i) ==
    \/ file[i].id /= "ISA" /\ \A k \in 1..(i - 1) : file[k].id /= "ISA"
    \/ file[i].id = "SVC" /\ \A k \in 1..(i - 1) : file[k].id /= "CLP"

\* C5: a build that met a record no open context can accept returns no
\* document.
C5_StructuralError == (\E i \in DOMAIN file : Unacceptable(i)) => ~Built

\* ------------------------------------------------------------------ C6
CountOfCode(code) ==
    Cardinality({k \in DOMAIN organizations : organizations[k].organization.e1 = code})

AccessorAnswer(result, code) ==
    result /= Unset =>
        IF CountOfCode(code) = 1
        THEN /\ result.kind = "value"
             /\ result.value \in Range(organizations)
             /\ result.value.organization.e1 = code
        ELSE result.kind = "AssertionError"

\* C6: the payer (payee) accessor answers the one organization of that type
\* exactly when the document holds exactly one, and fails otherwise; nothing
\* about the organizations fails the build, which raises only on a TRN record
\* too short for Trace.
C6_Accessors ==
    /\ AccessorAnswer(payer, "PR")
    /\ AccessorAnswer(payee, "PE")
    /\ ~Built => payer = Unset /\ payee = Unset
    /\ pc = "raised" => \E i \in DOMAIN file : file[i].id = "TRN" /\ file[i].n < 3

\* a document built with two payers and one payee: the payer accessor fails,
\* the payee accessor answers
C6_Witness ==
    /\ pc = "returned"
    /\ CountOfCode("PR") = 2
    /\ payer = [kind |-> "AssertionError"]
    /\ payee /= Unset /\ payee.kind = "value"

\* ------------------------------------------------------------------ C10
Increasing(list) == \A a, b \in DOMAIN list : a < b => list[a].pos < list[b].pos

Heads(loops, key) == [k \in DOMAIN loops |-> loops[k][key]]

RECURSIVE ConcatAll(_)
ConcatAll(ss) == IF ss = <<>> THEN <<>> ELSE Head(ss) \o ConcatAll(Tail(ss))

SvcEntries(svc) == <<svc.SVC>> \o svc.DTM \o svc.CAS \o svc.REF \o svc.AMT

ClpEntries(clp) ==
    <<clp.CLP>> \o clp.CAS \o clp.NM1 \o clp.DTM \o clp.AMT \o clp.REF
    \o ConcatAll([s \in DOMAIN clp.SVC_loop |-> SvcEntries(clp.SVC_loop[s])])

TxnEntries(txn) ==
    <<txn.ST>> \o txn.DTM \o txn.PLB \o Heads(txn.N1_loop, "N1")
    \o ConcatAll([c \in DOMAIN txn.CLP_loop |-> ClpEntries(txn.CLP_loop[c])])

\* every element of every list of the tree
TreeEntries == ConcatAll([t \in DOMAIN Transactions |-> TxnEntries(Transactions[t])])

\* the lists of the tree, each with the tag its elements must carry
TreeLists ==
    {<<"ST", Heads(Transactions, "ST")>>}
    \cup UNION {{<<"DTM", Transactions[t].DTM>>, <<"PLB", Transactions[t].PLB>>,
                 <<"N1", Heads(Transactions[t].N1_loop, "N1")>>,
                 <<"CLP", Heads(Transactions[t].CLP_loop, "CLP")>>} :
                t \in DOMAIN Transactions}
    \cup UNION {{<<"SVC", Heads(ClpAt(q).SVC_loop, "SVC")>>} \cup
                {<<key, ClpAt(q)[key]>> : key \in {"CAS", "NM1", "DTM", "AMT", "REF"}} :
                q \in ClpPaths}
    \cup UNION {{<<key, SvcAt(p)[key]>> : key \in {"DTM", "CAS", "REF", "AMT"}} :
                p \in SvcPaths}

\* the state of the source at segment i: a transaction is open from an ST
\* record to the next SE record, a claim from a CLP record read in an open
\* transaction to the next SE record
TxnOpenAt(i) ==
    \E s \in 1..(i - 1) : segments[s].id = "ST" /\ NoneBetween(s, i, {"SE"})

ClpOpenAt(i) ==
    \E c \in 1..(i - 1) :
        segments[c].id = "CLP" /\ TxnOpenAt(c) /\ NoneBetween(c, i, {"SE"})

\* the source records to_json accepts into a list
AcceptedJson ==
    {i \in DOMAIN segments :
        \/ segments[i].id = "ST"
        \/ segments[i].id \in {"DTM", "N1", "CLP", "PLB"} /\ TxnOpenAt(i)
        \/ segments[i].id \in {"CAS", "NM1", "AMT", "SVC", "REF"} /\ ClpOpenAt(i)}

JsonInSourceOrder ==
    /\ \A l \in TreeLists :
          /\ Increasing(l[2])
          /\ \A k \in DOMAIN l[2] :
                l[2][k].id = l[1] /\ l[2][k] = Convert(segments[l[2][k].pos], l[2][k].pos)
    /\ PosOf(TreeEntries) = AcceptedJson
    /\ Len(TreeEntries) = Cardinality(AcceptedJson)

\* the loop-initiating records of the file whose loop ended on a later record
\* of the file (build is handed the loop and the rest of the stream)
Indices(f) == [i \in 1..Len(f) |-> i]

AcceptedLoops(id, owned) ==
    SelectSeq(Indices(file),
              LAMBDA i : /\ file[i].id = id
                         /\ \E j \in (i + 1)..Len(file) : file[j].id \notin owned)

BuildInSourceOrder ==
    /\ [k \in DOMAIN claims |-> claims[k].claim.pos]
           = AcceptedLoops("CLP", ClaimOwned \cup ServiceOwned \cup {"SVC"})
    /\ [k \in DOMAIN organizations |-> organizations[k].organization.pos]
           = AcceptedLoops("N1", OrganizationOwned)
    /\ \A k \in DOMAIN claims :
          /\ claims[k].claim = Convert(file[claims[k].claim.pos], claims[k].claim.pos)
          /\ Increasing(claims[k].attached)
          /\ Increasing(Heads(claims[k].services, "service"))
          /\ \A s \in DOMAIN claims[k].services : Increasing(claims[k].services[s].attached)
    /\ \A k \in DOMAIN organizations :
          organizations[k].organization =
              Convert(file[organizations[k].organization.pos],
                      organizations[k].organization.pos)

NoSegment == [present |-> FALSE, date |-> "None"]

DateSegments ==
    {NoSegment} \cup {[present |-> TRUE, date |-> d] : d \in {"20240101", "20240131"}}

SerializeService_EndFromStart(c, s) ==
    [kind |-> "value",
     start_date |-> IF s.service_period_start.present THEN s.service_period_start.date
                    ELSE IF c.claim_statement_period_start.present
                         THEN c.claim_statement_period_start.date
                    ELSE "None",
     end_date |-> IF s.service_period_start.present THEN s.service_period_end.date
                  ELSE IF c.claim_statement_period_end.present
                       THEN c.claim_statement_period_end.date
                  ELSE "None"]

\* the start_date and end_date of the datum
SerializeService(c, s) ==
    [kind |-> "value",
     start_date |-> IF s.service_period_start.present THEN s.service_period_start.date
                    ELSE IF c.claim_statement_period_start.present
                         THEN c.claim_statement_period_start.date
                    ELSE "None",
     end_date |-> IF s.service_period_end.present THEN s.service_period_end.date
                  ELSE IF c.claim_statement_period_end.present
                       THEN c.claim_statement_period_end.date
                  ELSE "None"]

InitSvc ==
    /\ JsonIdle /\ BuildIdle /\ TextIdle /\ RestIdle
    /\ service \in [service_period_start : DateSegments, service_period_end : DateSegments]
    /\ claim \in [claim_statement_period_start : DateSegments,
                  claim_statement_period_end : DateSegments]
    /\ datum = Unset

CallSerializeService ==
    /\ datum = Unset
    /\ datum' = SerializeService(claim, service)
    /\ UNCHANGED <<service, claim, jsonVars, buildVars, textVars, restVars>>

NextSvc == CallSerializeService

SpecSvc == InitSvc /\ [][NextSvc]_vars

\* ------------------------------------------------------------------ C7
EffectiveDate(result, own, fallback) ==
    /\ own.present => result = own.date
    /\ ~own.present /\ fallback.present => result = fallback.date
    /\ ~own.present /\ ~fallback.present => result = "None"

\* C7: the start date of the datum is the service's own period start when
\* the service has one, else the claim's statement period start, else absent;
\* the end date likewise from the end dates alone; the call never fails.
C7_FallbackDates ==
    datum /= Unset =>
        /\ datum.kind = "value"
        /\ EffectiveDate(datum.start_date, service.service_period_start,
                         claim.claim_statement_period_start)
        /\ EffectiveDate(datum.end_date, service.service_period_end,
                         claim.claim_statement_period_end)

\* a service with its own start date and no end date: the start is its own,
\* the end is the claim's
C7_Witness ==
    /\ datum /= Unset
    /\ service.service_period_start.present
    /\ ~service.service_period_end.present
    /\ claim.claim_statement_period_end.present
    /\ datum.start_date = service.service_period_start.date
    /\ datum.end_date = claim.claim_statement_period_end.date
    /\ datum.start_date /= datum.end_date

\* ------------------------------------------------------------------ the raw text
\* a text is a sequence of characters; the control characters by name
GS == "<1D>"
RS == "<1E>"
US == "<1F>"
NL == "<LF>"

Chars == {"A", " ", NL, "*", "~", ":", GS, RS, US}

\* what str.strip() removes: the separators 0x1C-0x1F count as whitespace
Whitespace == {" ", NL, GS, RS, US}

RECURSIVE IndexOf(_, _, _)
IndexOf(text, ch, k) ==
    IF k > Len(text) THEN 0 ELSE IF text[k] = ch THEN k ELSE IndexOf(text, ch, k + 1)

\* text.split(sep)
RECURSIVE Split(_, _)
Split(text, sep) ==
    LET k == IndexOf(text, sep, 1)
    IN IF k = 0 THEN <<text>>
       ELSE <<SubSeq(text, 1, k - 1)>> \o Split(SubSeq(text, k + 1, Len(text)), sep)

RECURSIVE LStrip(_)
LStrip(text) ==
    IF text /= <<>> /\ Head(text) \in Whitespace THEN LStrip(Tail(text)) ELSE text

RECURSIVE RStrip(_)
RStrip(text) ==
    IF text /= <<>> /\ text[Len(text)] \in Whitespace
    THEN RStrip(SubSeq(text, 1, Len(text) - 1)) ELSE text

\* segment.strip()
Strip(text) == RStrip(LStrip(text))

\* text.replace(ch, by), by a text
Replace(text, ch, by) ==
    ConcatAll([k \in DOMAIN text |-> IF text[k] = ch THEN by ELSE <<text[k]>>])

\* sep.join(parts)
RECURSIVE Join(_, _)
Join(parts, sep) ==
    IF parts = <<>> THEN <<>>
    ELSE IF Len(parts) = 1 THEN parts[1]
    ELSE parts[1] \o <<sep>> \o Join(Tail(parts), sep)

PreprocessEdiContent(text) ==
    Replace(Replace(Replace(Replace(text, GS, <<"*">>), RS, <<"~">>), NL, <<>>), US, <<":">>)

NeedsPreprocessing(text) == \E k \in DOMAIN text : text[k] \in {GS, RS, US}

\* the filter tests the segment as read, not the stripped one
TokenizeFiltered_FilterRaw(text, sep) ==
    LET parts == SelectSeq(Split(text, sep), LAMBDA x : x /= <<>>)
    IN [k \in DOMAIN parts |-> Strip(parts[k])]

\* [segment.strip() for segment in segments if segment.strip()]
TokenizeFiltered(text, sep) ==
    LET parts == Split(text, sep)
    IN SelectSeq([k \in DOMAIN parts |-> Strip(parts[k])], LAMBDA x : x /= <<>>)

\* build: file.split('~'), each segment stripped, none dropped
TokenizeAll(text, sep) ==
    LET parts == Split(text, sep)
    IN [k \in DOMAIN parts |-> Strip(parts[k])]

\* the terminator to_json splits the text it read on
ToJsonTerminator(text) == IF NeedsPreprocessing(text) THEN ":" ELSE "~"

\* the segments of to_json for a file with this text
ToJsonSegments(text) ==
    IF NeedsPreprocessing(text)
    THEN TokenizeFiltered(PreprocessEdiContent(text), ":")
    ELSE TokenizeFiltered(text, "~")

\* the text of the file the built TransactionSet points to_json at: the
\* .processed.tmp file when _build_transaction_set preprocessed, else the file
FileOfTransactionSet(text, preprocess) ==
    IF preprocess /\ NeedsPreprocessing(text) THEN PreprocessEdiContent(text) ELSE text

InitText ==
    /\ JsonIdle /\ BuildIdle /\ SvcIdle /\ RestIdle
    /\ content \in SeqsUpTo(Chars, MaxText)
    /\ op = NoOp
    /\ records = <<>>
    /\ rerecords = <<>>

\* parse_to_json(path, preprocess=...): _build_transaction_set, then to_json
\* reads and tokenizes the file of the transaction set
ParseToJson ==
    /\ op = NoOp
    /\ \E preprocess \in BOOLEAN :
          LET text == FileOfTransactionSet(content, preprocess)
          IN /\ op' = [fn |-> "to_json", preprocess |-> preprocess,
                       terminator |-> ToJsonTerminator(text)]
             /\ records' = ToJsonSegments(text)
    /\ UNCHANGED <<content, rerecords, jsonVars, buildVars, svcVars, restVars>>

\* TransactionSet.build(file_path): the segments build iterates over
BuildTokenize ==
    /\ op = NoOp
    /\ op' = [fn |-> "build", preprocess |-> FALSE, terminator |-> "~"]
    /\ records' = TokenizeAll(content, "~")
    /\ UNCHANGED <<content, rerecords, jsonVars, buildVars, svcVars, restVars>>

\* the records joined with the terminator and tokenized again, as before
Retokenize ==
    /\ op.fn \in {"to_json", "build"}
    /\ LET joined == Join(records, op.terminator)
       IN rerecords' = IF op.fn = "to_json" THEN TokenizeFiltered(joined, op.terminator)
                       ELSE TokenizeAll(joined, op.terminator)
    /\ op' = [op EXCEPT !.fn = IF op.fn = "to_json" THEN "re_to_json" ELSE "re_build"]
    /\ UNCHANGED <<content, records, jsonVars, buildVars, svcVars, restVars>>

NextText == ParseToJson \/ BuildTokenize \/ Retokenize

SpecText == InitText /\ [][NextText]_vars

\* ------------------------------------------------------------------ C8
Has(text, ch) == \E k \in DOMAIN text : text[k] = ch

\* a text delimited by control characters: GS between fields, RS between
\* records, line breaks, and none of the standard or unit separators
ControlDelimited(text) ==
    /\ Has(text, GS) /\ Has(text, RS) /\ Has(text, NL)
    /\ ~Has(text, "*") /\ ~Has(text, "~") /\ ~Has(text, ":") /\ ~Has(text, US)

\* the same text written with '*' and '~' and no line breaks
Equivalent(text) == Replace(Replace(Replace(text, GS, <<"*">>), RS, <<"~">>), NL, <<>>)

\* C8: the records the hierarchical view reads from a control-delimited text
\* are the records of the equivalent text split on '~'.
C8_ControlDelimited ==
    (op.fn = "to_json" /\ ControlDelimited(content))
        => records = TokenizeFiltered(Equivalent(content), "~")

\* ------------------------------------------------------------------ C9
\* C9: the records, joined with the terminator and tokenized again, are the
\* same records.
C9_RoundTrip == op.fn \in {"re_to_json", "re_build"} => rerecords = records

\* a text whose records were trimmed and whose empty record was dropped, so
\* that the joined records are not the text, tokenized a second time
C9_Witness ==
    /\ op.fn = "re_to_json"
    /\ Len(records) = 2
    /\ Join(records, op.terminator) /= content
    /\ \E k \in DOMAIN content : content[k] = " "

\* ------------------------------------------------------------------ C11
ServiceKeys == {"DTM", "CAS", "REF", "AMT"}

\* C11: every SVC loop entry of the tree has its DTM, CAS, REF and AMT keys,
\* an empty list where no such record occurred for the service, so that
\* reading any of the four lists of any service never fails.
C11_ServiceLists == \A p \in SvcPaths : ServiceKeys \subseteq SvcAt(p).keys

\* ------------------------------------------------------------------ segments and elements
MaxFields == 4

\* the absent value of a field
None == "<None>"

IndexError == [kind |-> "IndexError"]

\* get_element(segment, k): the field, '' where the segment has none
GetElement(seg, k) == IF Len(seg) > k THEN seg[k + 1] ELSE ""

\* the parser answers '' for a code the table lacks
ContactFunctionCodeParser_Blank(value) ==
    IF value \in DOMAIN contact_function_codes THEN contact_function_codes[value] ELSE ""

\* contact_function_codes.get(value, value)
ContactFunctionCodeParser(value) ==
    IF value \in DOMAIN contact_function_codes THEN contact_function_codes[value] ELSE value

\* communication_qualifiers.get(value, value)
CommunicationQualifierParser(value) ==
    IF value \in DOMAIN communication_qualifiers THEN communication_qualifiers[value]
    ELSE value

\* Trace.__init__: segment[1] and segment[2] are read as they are
TraceInit(seg) ==
    IF Len(seg) < 3 THEN IndexError
    ELSE [kind |-> "Trace", identifier |-> seg[1], trace_type |-> seg[2],
          trace_number |-> seg[3],
          entity_identifier |-> IF Len(seg) > 3 THEN seg[4] ELSE None]

\* Contact.__init__: segment[1] is read as it is, the rest through get_element;
\* the coded fields are stored as their element's parser answers
ContactInit(seg) ==
    IF Len(seg) < 2 THEN IndexError
    ELSE [kind |-> "Contact", identifier |-> seg[1],
          contact_function_code |-> ContactFunctionCodeParser(seg[2]),
          name |-> IF GetElement(seg, 2) /= "" THEN GetElement(seg, 2) ELSE None,
          communication_number_qualifier |-> CommunicationQualifierParser(GetElement(seg, 3)),
          communication_number |-> GetElement(seg, 4),
          communication_number_qualifier_2 |-> CommunicationQualifierParser(GetElement(seg, 5)),
          communication_number_2 |-> GetElement(seg, 6)]

\* AssignedNumber.__init__: segment[1] is read as it is
AssignedNumberInit(seg) ==
    IF Len(seg) < 2 THEN IndexError
    ELSE [kind |-> "AssignedNumber", identifier |-> seg[1], assigned_number |-> seg[2]]

\* the number of keys of _convert_trn_segment and _convert_per_segment
KeyCount(tag) == IF tag = "TRN" THEN 4 ELSE 9

\* _convert_*_segment: parts[k] if len(parts) > k else "", for each key
ConvertParts(seg) ==
    [kind |-> "dict",
     values |-> [k \in 1..KeyCount(seg[1]) |-> IF Len(seg) > k THEN seg[k + 1] ELSE ""]]

\* the codes looked up, in one table, in both, in neither, and the empty one
Codes == {"", "TE", "BL", "EM", "ZZ"}

FieldValues(tag) == IF tag = "LX" THEN {"1"} ELSE Codes

\* a segment of one of the three classes with the tag alone or with more fields
SegmentsOf(tag) == {<<tag>> \o fs : fs \in SeqsUpTo(FieldValues(tag), MaxFields - 1)}

InitSeg ==
    /\ JsonIdle /\ BuildIdle /\ TextIdle /\ SvcIdle /\ BatchIdle /\ FrameIdle
    /\ elements \in SegmentsOf("TRN") \cup SegmentsOf("PER") \cup SegmentsOf("LX")
    /\ built = Unset
    /\ contact_function_codes = ContactFunctionCodes
    /\ communication_qualifiers = CommunicationQualifiers
    /\ lookup = Unset

SegOthers == <<jsonVars, buildVars, textVars, svcVars, batchVars, frameVars>>

NewTrace ==
    /\ built = Unset /\ elements[1] = "TRN"
    /\ built' = TraceInit(elements)
    /\ UNCHANGED <<elements, contact_function_codes, communication_qualifiers, lookup, SegOthers>>

NewContact ==
    /\ built = Unset /\ elements[1] = "PER"
    /\ built' = ContactInit(elements)
    /\ UNCHANGED <<elements, contact_function_codes, communication_qualifiers, lookup, SegOthers>>

NewAssignedNumber ==
    /\ built = Unset /\ elements[1] = "LX"
    /\ built' = AssignedNumberInit(elements)
    /\ UNCHANGED <<elements, contact_function_codes, communication_qualifiers, lookup, SegOthers>>

\* the converter to_json applies to a TRN or PER segment
ConvertSegment ==
    /\ built = Unset /\ elements[1] \in {"TRN", "PER"}
    /\ built' = ConvertParts(elements)
    /\ UNCHANGED <<elements, contact_function_codes, communication_qualifiers, lookup, SegOthers>>

\* a call of an element's parser
Parser ==
    /\ \E element \in {"ContactFunctionCode", "CommunicationQualifier"}, value \in Codes :
          lookup' = [element |-> element, value |-> value,
                     result |-> IF element = "ContactFunctionCode"
                                THEN ContactFunctionCodeParser(value)
                                ELSE CommunicationQualifierParser(value)]
    /\ UNCHANGED <<elements, built, contact_function_codes, communication_qualifiers, SegOthers>>

NextSeg == NewTrace \/ NewContact \/ NewAssignedNumber \/ ConvertSegment \/ Parser

SpecSeg == InitSeg /\ [][NextSeg]_vars

\* ------------------------------------------------------------------ C12
\* C12: making a record of a segment with fewer fields than its layout never
\* fails, for Trace, Contact and AssignedNumber from the tag alone upward, and
\* in the converters of the hierarchical view every missing field is the
\* empty string under its key.
C12_MissingFields ==
    built /= Unset =>
        /\ built.kind /= "IndexError"
        /\ built.kind = "dict" =>
              \A k \in DOMAIN built.values : Len(elements) <= k => built.values[k] = ""

\* ------------------------------------------------------------------ C13
TableOf(element) ==
    IF element = "ContactFunctionCode" THEN ContactFunctionCodes ELSE CommunicationQualifiers

\* C13: a lookup answers the description of a code its table holds and the
\* code itself, unchanged, for any other code, the empty one included; the
\* tables stay as their modules define them.
C13_TotalLookup ==
    /\ contact_function_codes = ContactFunctionCodes
    /\ communication_qualifiers = CommunicationQualifiers
    /\ lookup /= Unset =>
          LET table == TableOf(lookup.element)
          IN IF lookup.value \in DOMAIN table
             THEN lookup.result = table[lookup.value]
             ELSE lookup.result = lookup.value

\* a code the other table holds, answered unchanged by this one
C13_Witness ==
    /\ lookup /= Unset
    /\ lookup.element = "ContactFunctionCode"
    /\ lookup.value = "EM" /\ lookup.result = "EM"
    /\ "EM" \in DOMAIN communication_qualifiers

\* ------------------------------------------------------------------ a batch of files
MaxBatch == 3

\* TransactionSet.build run to its end on the segments of a file
RECURSIVE BuildRun(_, _, _)
BuildRun(f, seg, cur) ==
    LET response == BuildAttribute(f, seg, cur)
    IN IF response.raised THEN "raised"
       ELSE IF response.segments = -1 THEN "returned"
       ELSE BuildRun(f, response.segment, response.segments)

BuildRaises(f) == BuildRun(f, 0, 0) = "raised"

\* a failed build ends the loop whatever debug is
ParseFileStep_NoTry(dbg, raised) == IF ~raised THEN "append" ELSE "raise"

\* parse's loop body: the build appended, or its error raised (debug) or
\* caught and warned about
ParseFileStep(dbg, raised) ==
    IF ~raised THEN "append" ELSE IF dbg THEN "raise" ELSE "warn"

NoError == [kind |-> "None"]

UnboundLocalError == [kind |-> "UnboundLocalError"]

\* the error a failed build raises: Trace.__init__ reading a missing field
BuildError(f) == IF BuildRaises(f) THEN IndexError ELSE NoError

\* finally: hasattr(transaction_set, 'file_path') reads the local
\* transaction_set; read while never assigned it raises, and the error of a
\* finally clause replaces the one that was pending
Finally(bound, pending) == IF ~bound THEN UnboundLocalError ELSE pending

\* parse_to_json(path), debug disabled: the tree, or the error that reaches
\* the caller; `warned` is the warning of the except clause
ParseToJsonOutcome(f) ==
    LET raised == BuildRaises(f)
        error == Finally(~raised, BuildError(f))
    IN [status |-> IF error = NoError THEN "SUCCESS" ELSE "FAILED",
        error |-> error, warned |-> raised]

\* the files of a directory: one that builds to an empty document, one whose
\* TRN record is too short for Trace, one with a claim and a service
BatchFiles ==
    {<<Seg("ISA")>>, <<[id |-> "TRN", e1 |-> "1", n |-> 2]>>, <<Seg("CLP"), Seg("SVC")>>}

InitBatch ==
    /\ JsonIdle /\ BuildIdle /\ TextIdle /\ SvcIdle /\ SegIdle /\ FrameIdle
    /\ files \in SeqsUpTo(BatchFiles, MaxBatch)
    /\ caller \in {"parse", "runner"}
    /\ debug \in IF caller = "parse" THEN BOOLEAN ELSE {FALSE}
    /\ index = 0
    /\ attempted = <<>>
    /\ transaction_sets = <<>>
    /\ warnings = <<>>
    /\ results = <<>>
    /\ successful_tests = 0
    /\ failed_tests = 0
    /\ batch_pc = "loop"

BatchOthers == <<jsonVars, buildVars, textVars, svcVars, segVars, frameVars>>

\* one pass of `for file in files:` in parse
ParseFile ==
    /\ caller = "parse" /\ batch_pc = "loop" /\ index < Len(files)
    /\ LET i == index + 1
           step == ParseFileStep(debug, BuildRaises(files[i]))
       IN /\ index' = i
          /\ attempted' = Append(attempted, i)
          /\ transaction_sets' = IF step = "append" THEN Append(transaction_sets, i)
                                 ELSE transaction_sets
          /\ warnings' = IF step = "warn" THEN Append(warnings, i) ELSE warnings
          /\ batch_pc' = IF step = "raise" THEN "raised" ELSE "loop"
    /\ UNCHANGED <<files, debug, caller, results, successful_tests, failed_tests,
                   BatchOthers>>

\* return TransactionSets(transaction_sets)
ParseReturn ==
    /\ caller = "parse" /\ batch_pc = "loop" /\ index = Len(files)
    /\ batch_pc' = "returned"
    /\ UNCHANGED <<files, debug, caller, index, attempted, transaction_sets, warnings,
                   results, successful_tests, failed_tests, BatchOthers>>

\* one pass of `for test_file in sorted(test_files):` in the runner
RunnerFile ==
    /\ caller = "runner" /\ batch_pc = "loop" /\ index < Len(files)
    /\ LET i == index + 1
           outcome == ParseToJsonOutcome(files[i])
       IN /\ index' = i
          /\ attempted' = Append(attempted, i)
          /\ results' = Append(results, [file |-> i, status |-> outcome.status,
                                         error |-> outcome.error])
          /\ successful_tests' = successful_tests + IF outcome.status = "SUCCESS" THEN 1 ELSE 0
          /\ failed_tests' = failed_tests + IF outcome.status = "FAILED" THEN 1 ELSE 0
          /\ warnings' = IF outcome.warned THEN Append(warnings, i) ELSE warnings
    /\ UNCHANGED <<files, debug, caller, transaction_sets, batch_pc, BatchOthers>>

\* return results
RunnerReturn ==
    /\ caller = "runner" /\ batch_pc = "loop" /\ index = Len(files)
    /\ batch_pc' = "returned"
    /\ UNCHANGED <<files, debug, caller, index, attempted, transaction_sets, warnings,
                   results, successful_tests, failed_tests, BatchOthers>>

NextBatch == ParseFile \/ ParseReturn \/ RunnerFile \/ RunnerReturn

SpecBatch == InitBatch /\ [][NextBatch]_vars

\* ------------------------------------------------------------------ C14
BatchEnded == batch_pc \in {"returned", "raised"}

Builds == SelectSeq(Indices(files), LAMBDA i : ~BuildRaises(files[i]))

Fails == SelectSeq(Indices(files), LAMBDA i : BuildRaises(files[i]))

\* every file attempted once, in order; the built ones in the result; in the
\* runner one result per file, counted
EveryFileAttempted ==
    /\ attempted = Indices(files)
    /\ caller = "parse" => transaction_sets = Builds
    /\ caller = "runner" =>
          /\ [k \in DOMAIN results |-> results[k].file] = Indices(files)
          /\ \A k \in DOMAIN results :
                results[k].status = "SUCCESS" <=> ~BuildRaises(files[k])
          /\ successful_tests = Len(Builds)
          /\ successful_tests + failed_tests = Len(files)

\* C14 as stated: a batch run, whatever its arguments, ends with every file
\* attempted exactly once, every built file in the result and, in the runner,
\* every outcome recorded.
C14_AsStated == BatchEnded => EveryFileAttempted

\* C14 amended: with debug disabled, a batch run ends with every file
\* attempted exactly once whatever the outcome of the files before it, every
\* built file in the result and every failed file warned about; in the runner
\* successful + failed is the number of files.  Under any arguments the files
\* are taken in order, none twice.
C14_BatchIsolation ==
    /\ attempted = [k \in 1..index |-> k]
    /\ ~debug => batch_pc /= "raised"
    /\ (BatchEnded /\ ~debug) =>
          /\ EveryFileAttempted
          /\ caller = "parse" => warnings = Fails

\* a failing file first and a building file after it, both attempted, the
\* second in the result
C14_Witness ==
    /\ BatchEnded /\ ~debug /\ caller = "parse"
    /\ Len(files) >= 2
    /\ BuildRaises(files[1]) /\ ~BuildRaises(files[2])
    /\ warnings = <<1>>
    /\ 2 \in Range(transaction_sets)

\* ------------------------------------------------------------------ to_dataframe
MaxFrame == 4

\* the collections of a service: its CAS, REF and LQ records, in order
Adjustments(svc) == SelectSeq(svc.attached, LAMBDA d : d.id = "CAS")
References(svc) == SelectSeq(svc.attached, LAMBDA d : d.id = "REF")
Remarks(svc) == SelectSeq(svc.attached, LAMBDA d : d.id = "LQ")

\* for index, item in enumerate(items): datum[f'{prefix}_{index}_{field}'],
\* each column with the record its value is read from
Enumerated(prefix, fieldNames, items) ==
    {<<<<prefix, i - 1, name>>, items[i].pos>> : i \in DOMAIN items, name \in fieldNames}

\* the index restarts at each item: every item is written as number 0
DynamicColumns_FirstOnly(svc) ==
    {<<<<col[1][1], 0, col[1][3]>>, col[2]>> :
        col \in Enumerated("adj", {"group", "code", "amount"}, Adjustments(svc))
                 \cup Enumerated("ref", {"qual", "value"}, References(svc))
                 \cup Enumerated("rem", {"qual", "code"}, Remarks(svc))}

\* the three enumerate loops of to_dataframe
DynamicColumns(svc) ==
    Enumerated("adj", {"group", "code", "amount"}, Adjustments(svc))
    \cup Enumerated("ref", {"qual", "value"}, References(svc))
    \cup Enumerated("rem", {"qual", "code"}, Remarks(svc))

\* the datum of one (claim, service) pair: the fields of serialize_service
\* that tell the pair, and the numbered columns
Datum(c, s) ==
    [marker |-> claims[c].claim.pos, code |-> claims[c].services[s].service.pos,
     dynamic |-> DynamicColumns(claims[c].services[s])]

\* for claim in self.claims: for service in claim.services
Pairs ==
    ConcatAll([c \in DOMAIN claims |->
                  [s \in DOMAIN claims[c].services |-> <<c, s>>]])

\* pd.DataFrame(data): the columns of the frame are those of all the rows; a
\* row holds NaN, here 0, in a column its datum lacks
DataFrame(rows) ==
    LET columns == UNION {{col[1] : col \in rows[k].dynamic} : k \in DOMAIN rows}
    IN [kind |-> "frame", columns |-> columns,
        rows |-> [k \in DOMAIN rows |->
                    [marker |-> rows[k].marker, code |-> rows[k].code,
                     cells |-> [c \in columns |->
                                  IF \E col \in rows[k].dynamic : col[1] = c
                                  THEN (CHOOSE col \in rows[k].dynamic : col[1] = c)[2]
                                  ELSE 0]]]]

\* to_dataframe: the first pair reads self.payer, whose assertion may fail,
\* and serialize_service then reads financial_information.transaction_date
ToDataFrame ==
    IF Pairs = <<>> THEN DataFrame(<<>>)
    ELSE IF Accessor(organizations, "payer").kind /= "value"
         THEN [kind |-> "AssertionError"]
    ELSE IF financial_information = Null THEN [kind |-> "AttributeError"]
    ELSE DataFrame([k \in DOMAIN Pairs |-> Datum(Pairs[k][1], Pairs[k][2])])

FrameHeaders ==
    {<<>>, <<Seg("BPR")>>, <<[id |-> "N1", e1 |-> "PR", n |-> 3]>>,
     <<Seg("BPR"), [id |-> "N1", e1 |-> "PR", n |-> 3]>>,
     <<Seg("BPR"), [id |-> "N1", e1 |-> "PR", n |-> 3], [id |-> "N1", e1 |-> "PR", n |-> 3]>>}

FrameAlphabet == {Seg(id) : id \in {"CLP", "SVC", "CAS", "REF", "LQ"}}

\* a file: its head records, its claims, the transaction's end or nothing
FrameFiles ==
    {h \o b \o t : h \in FrameHeaders, b \in SeqsUpTo(FrameAlphabet, MaxFrame),
                   t \in {<<>>, <<Seg("SE")>>}} \ {<<>>}

InitFrame ==
    /\ JsonIdle /\ TextIdle /\ SvcIdle /\ RestIdle
    /\ file \in FrameFiles
    /\ cursor = 0
    /\ segment = 0
    /\ interchange = Null
    /\ financial_information = Null
    /\ trace = Null
    /\ claims = <<>>
    /\ organizations = <<>>
    /\ pc = "loop"
    /\ payer = Unset
    /\ payee = Unset

ToDataframe ==
    /\ pc = "returned"
    /\ pc' = "frame"
    /\ data' = ToDataFrame
    /\ UNCHANGED <<file, cursor, segment, interchange, financial_information, trace,
                   claims, organizations, payer, payee, jsonVars, textVars, svcVars,
                   segVars, batchVars>>

\* the build of a document and its flattening
NextFrame == BuildLoop \/ ToDataframe

SpecFrame == InitFrame /\ [][NextFrame]_vars

\* ------------------------------------------------------------------ C15
Carried(row) == {c \in DOMAIN row.cells : row.cells[c] /= 0}

Expected(prefix, fieldNames, count) ==
    {<<prefix, i, name>> : i \in 0..(count - 1), name \in fieldNames}

C16_TransactionLevel ==
    \A j \in DOMAIN segments :
        (segments[j].id \in {"REF", "CAS", "AMT"} /\ TxnOpenAt(j) /\ ~ClpOpenAt(j))
            => j \in PosOf(TreeEntries)

\* ------------------------------------------------------------------ C17
\* C17: a CAS, REF, AMT or DTM record read after a PLB record, with no CLP
\* record between the two, is in no list of a claim or a service that was
\* opened before the PLB record.
C17_PlbCloses ==
    \A b, j \in DOMAIN segments :
        LET tag == segments[j].id
        IN (segments[b].id = "PLB" /\ b < j /\ tag \in Routed /\ NoneBetween(b, j, {"CLP"}))
           => /\ \A q \in ClpPaths :
                    ClpAt(q).CLP.pos < b => j \notin PosOf(ClpAt(q)[tag])
              /\ \A p \in SvcPaths :
                    SvcAt(p).SVC.pos < b => j \notin PosOf(SvcAt(p)[tag])

\* ------------------------------------------------------------------ C18
N1Paths ==
    UNION {{<<t, k>> : k \in DOMAIN Transactions[t].N1_loop} : t \in DOMAIN Transactions}

N1At(p) == Transactions[p[1]].N1_loop[p[2]]

\* C18: the N3, N4 or PER of an N1 loop comes from a record that followed the
\* loop's N1 record with none but N3, N4 and PER records between the two: a
\* record read after the loop was closed by a record it does not own never
\* sets or overwrites them.
C18_OrganizationCloses ==
    \A p \in N1Paths : \A key \in OrganizationOwned :
        N1At(p)[key] /= Null =>
            \A m \in (N1At(p).N1.pos + 1)..(N1At(p)[key].pos - 1) :
                segments[m].id \in OrganizationOwned

\* ------------------------------------------------------------------ C19
\* the pass over the segments with the LX records left out, the others
\* keeping their place in the source
RECURSIVE JsonFoldWithoutLX(_, _, _)
JsonFoldWithoutLX(st, segs, k) ==
    IF k > Len(segs) THEN st
    ELSE IF segs[k].id = "LX" THEN JsonFoldWithoutLX(st, segs, k + 1)
    ELSE JsonFoldWithoutLX(JsonStep(st, segs[k], k), segs, k + 1)

\* C19: the tree and the open transaction, organization, claim and service
\* of a stream are those of the stream with its LX records removed.
C19_AssignedNumberNoEffect == JsonState = JsonFoldWithoutLX(JsonInit, segments, 1)

\* an LX record between two claims of a transaction, the service after it
\* attached to the second claim
C19_Witness ==
    \E j \in DOMAIN segments :
        /\ segments[j].id = "LX"
        /\ \E q \in ClpPaths : ClpAt(q).CLP.pos < j /\ ClpAt(q).SVC_loop = <<>>
        /\ \E p \in SvcPaths : ClpAt(<<p[1], p[2]>>).CLP.pos > j

\* ------------------------------------------------------------------ C20
\* the record the next pass of the loop takes: the pushed-back one, else the
\* next of the iterator
Frontier == IF segment /= 0 THEN segment ELSE cursor + 1

LastBelow(id, n) ==
    LET found == {i \in 1..(n - 1) : file[i].id = id}
    IN IF found = {} THEN 0 ELSE CHOOSE i \in found : \A j \in found : j <= i

StartsBelow(id, n) == SelectSeq(Indices(file), LAMBDA i : i < n /\ file[i].id = id)

\* while build loops, every N1, CLP, ISA, BPR and TRN record before the
\* frontier has been taken: the loops of the document are those the N1 and
\* CLP records before the frontier start, the scalars are the last ISA, BPR
\* and TRN records before it
NothingLost ==
    pc = "loop" =>
        /\ Frontier \in 1..(Len(file) + 1)
        /\ [k \in DOMAIN claims |-> claims[k].claim.pos] = StartsBelow("CLP", Frontier)
        /\ [k \in DOMAIN organizations |-> organizations[k].organization.pos]
               = StartsBelow("N1", Frontier)
        /\ interchange.pos = LastBelow("ISA", Frontier)
        /\ financial_information.pos = LastBelow("BPR", Frontier)
        /\ trace.pos = LastBelow("TRN", Frontier)

\* a pass of the loop starts with nothing lost, and unless it ends the build
\* it takes at least one record
Consumes ==
    /\ NothingLost
    /\ (pc = "loop" /\ pc' = "loop") => Frontier' > Frontier

\* C20: build terminates on every finite stream: every pass of its loop
\* either takes at least one record, the frontier moving toward the end of
\* the file which bounds it, or ends the build; and a record handed back by a
\* loop builder that is an N1, CLP, ISA, BPR or TRN record is taken by the
\* next pass, not lost.
C20_BuildTerminates == [][Consumes]_vars

\* an organization ended by a CLP record and the claim ended by an ISA
\* record: both handed-back records were taken, and the build returned
C20_Witness ==
    /\ pc = "returned"
    /\ Len(organizations) = 1 /\ Len(claims) = 1
    /\ claims[1].claim.pos = organizations[1].organization.pos + 1
    /\ interchange.pos = claims[1].claim.pos + 1

\* ------------------------------------------------------------------ C21
\* what build_attribute answers to the pass of the loop that is about to run
Returned == BuildAttribute(file, segment, cursor)

\* the pass appends the loop its builder returned to the list of its kind
AppendsReturned ==
    (pc = "loop" /\ ~Returned.raised) =>
        /\ Returned.key = "claim" => claims' = Append(claims, Returned.value)
        /\ Returned.key = "organization" =>
               organizations' = Append(organizations, Returned.value)

\* C21: every claim loop and organization loop a loop builder returns to
\* build is appended to the document's claims or organizations, the last
\* loop of the stream included, whose builder reached the end of the stream
\* and returned the loop with no remaining iterator.
C21_LastLoopKept == [][AppendsReturned]_vars

\* ------------------------------------------------------------------ C22
\* the source positions of the records held by the claim, service and
\* organization loops of a transaction
LoopPositions(txn) ==
    UNION {PosOf(ClpEntries(txn.CLP_loop[c])) : c \in DOMAIN txn.CLP_loop}
    \cup UNION {{txn.N1_loop[k][key].pos :
                    key \in {x \in OrganizationOwned : txn.N1_loop[k][x] /= Null}} :
                k \in DOMAIN txn.N1_loop}

\* C22: a record is only ever attached to a loop of the transaction the most
\* recent ST record opened: the claim, service and organization loops of a
\* transaction hold no record read after the ST record of the next
\* transaction, whether or not an SE record came before that ST record.
C22_CurrentTransactionOnly ==
    \A t \in DOMAIN Transactions :
        t < Len(Transactions) =>
            \A i \in LoopPositions(Transactions[t]) : i < Transactions[t + 1].ST.pos

\* ------------------------------------------------------------------ C23
\* C23: when the build of the transaction set fails inside parse_to_json with
\* debug disabled, the error that reaches the caller is the build's own
\* error, after the warning was issued: the cleanup of the temporary file
\* raises no other error in its place when no transaction set was built.
C23_OriginalError ==
    caller = "runner" =>
        \A k \in DOMAIN results :
            BuildRaises(files[results[k].file]) =>
                /\ results[k].file \in Range(warnings)
                /\ results[k].error = BuildError(files[results[k].file])

====
